---- MODULE Spec2Model ----
(***************************************************************************)
(* Model of predictions/prediction.py: the Prediction value object and its *)
(* two specialisations NumericPrediction and BinaryPrediction.             *)
(*                                                                         *)
(* One behaviour is the life of one instance: the constructor call with    *)
(* its arguments, then any sequence of accessor calls on the constructed   *)
(* object.  Element values are numbers of a numpy array: finite numbers    *)
(* and the float infinity, with IEEE results (inf, -inf, nan) for the      *)
(* arithmetic.  Numbers are fractions n/d in lowest terms; d = 0 encodes   *)
(* inf (n = 1), -inf (n = -1) and nan (n = 0).  Float rounding is not      *)
(* modelled: quotients are exact.                                          *)
(***************************************************************************)
EXTENDS Integers, Sequences, FiniteSets, TLC

VARIABLES pc, kind, args, fitted_values, real_values, value_positive, call, result

vars == <<pc, kind, args, fitted_values, real_values, value_positive, call, result>>

self == [fitted_values |-> fitted_values, real_values |-> real_values,
         value_positive |-> value_positive]

(* ---------------------------------------------------------------------- *)
(* Bounds                                                                 *)
(* ---------------------------------------------------------------------- *)
MaxLen == 2

(* ---------------------------------------------------------------------- *)
(* Numbers                                                                *)
(* ---------------------------------------------------------------------- *)
RECURSIVE Gcd(_, _)
Gcd(a, b) == IF b = 0 THEN a ELSE Gcd(b, a % b)

AbsInt(x) == IF x < 0 THEN -x ELSE x

SignInt(x) == IF x < 0 THEN -1 ELSE IF x > 0 THEN 1 ELSE 0

Num(x) == [n |-> x, d |-> 1]

PosInf == [n |-> 1, d |-> 0]

NegInf == [n |-> -1, d |-> 0]

NaN == [n |-> 0, d |-> 0]

IsNaN(x) == x.d = 0 /\ x.n = 0

IsInf(x) == x.d = 0 /\ x.n # 0

IsFinite(x) == x.d # 0

\* a / b for integers a and b > 0, in lowest terms
Frac(a, b) == LET g == Gcd(AbsInt(a), b) IN [n |-> a \div g, d |-> b \div g]

\* x == y and x != y on floats: nan is equal to nothing
Eq(x, y) == ~IsNaN(x) /\ ~IsNaN(y) /\ x = y

Ne(x, y) == ~Eq(x, y)

\* x <= y on floats: false when either side is nan
Le(x, y) ==
    IF IsNaN(x) \/ IsNaN(y) THEN FALSE
    ELSE IF IsInf(x) THEN (x.n < 0 \/ x = y)
    ELSE IF IsInf(y) THEN y.n > 0
    ELSE x.n * y.d <= y.n * x.d

Neg(x) == [n |-> -x.n, d |-> x.d]

\* x - y on floats: inf - inf is nan
Sub(x, y) ==
    IF IsNaN(x) \/ IsNaN(y) THEN NaN
    ELSE IF IsInf(x) /\ IsInf(y) THEN (IF x = y THEN NaN ELSE x)
    ELSE IF IsInf(x) THEN x
    ELSE IF IsInf(y) THEN Neg(y)
    ELSE Frac(x.n * y.d - y.n * x.d, x.d * y.d)

\* x ** 2
Square(x) ==
    IF IsNaN(x) THEN NaN
    ELSE IF IsInf(x) THEN PosInf
    ELSE [n |-> x.n * x.n, d |-> x.d * x.d]

\* abs(x)
Abs(x) == [n |-> AbsInt(x.n), d |-> x.d]

\* x / y of numpy (true division): n/0 is inf or nan, never an exception
Divide(x, y) ==
    IF IsNaN(x) \/ IsNaN(y) THEN NaN
    ELSE IF IsInf(x) THEN (IF IsInf(y) THEN NaN
                           ELSE IF y.n < 0 THEN Neg(x) ELSE x)
    ELSE IF IsInf(y) THEN Num(0)
    ELSE IF y.n = 0 THEN [n |-> SignInt(x.n), d |-> 0]
    ELSE Frac(SignInt(y.n) * x.n * y.d, AbsInt(y.n) * x.d)

(* ---------------------------------------------------------------------- *)
(* Values: array-likes, None, Python scalars, raised exceptions           *)
(* ---------------------------------------------------------------------- *)
\* the element values the inputs are drawn from
Values == {Num(-1), Num(1), PosInf}

\* tolerances matches() of NumericPrediction is called with (0.0 = default)
Tolerances == {Num(0), Num(2)}

ArrayTypes == {"list", "ndarray", "Series"}

Kinds == {"Prediction", "NumericPrediction", "BinaryPrediction"}

None == [type |-> "NoneType", data |-> <<>>]

\* an attribute that is not set on the instance
NoAttr == [type |-> "unset", data |-> <<>>]

Array(t, xs) == [type |-> t, data |-> xs]

PyBool(b) == [type |-> "bool", data |-> <<b>>]

PyInt(i) == [type |-> "int", data |-> <<i>>]

PyFloat(x) == [type |-> "float", data |-> <<x>>]

Raise(exc, msg) == [type |-> "raise", data |-> <<exc>>, msg |-> msg]

SeqsUpTo(S, k) == UNION {[1..m -> S] : m \in 0..k}

ArrayLikes == {Array(t, xs) : t \in ArrayTypes, xs \in SeqsUpTo(Values, MaxLen)}

\* the number of elements of an array-like
Length(v) == Len(v.data)

\* the builtin len(v): None has no len()
PyLen(v) == IF v = None THEN Raise("TypeError", <<>>) ELSE PyInt(Length(v))

(* ---------------------------------------------------------------------- *)
(* str(int) and the error message of _check_lengths_match                 *)
(* ---------------------------------------------------------------------- *)
DigitChar == <<"0", "1", "2", "3", "4", "5", "6", "7", "8", "9">>

\* str(i) for i >= 0, as the sequence of its characters
RECURSIVE IntToStr(_)
IntToStr(i) ==
    IF i < 10 THEN <<DigitChar[i + 1]>>
    ELSE IntToStr(i \div 10) \o <<DigitChar[(i % 10) + 1]>>

\* the message: literal pieces of text and the characters of the two lengths
LengthMessage(len_fit, len_real) ==
    <<"Fitted values and real values must have the same length.\n">>
    \o <<"Fitted values has length: ">> \o IntToStr(len_fit) \o <<".\n">>
    \o <<"Real values has length: ">> \o IntToStr(len_real) \o <<".">>

\* sub in text, for sequences of characters
Contains(text, sub) ==
    \E i \in 0..(Len(text) - Len(sub)) :
        \A j \in 1..Len(sub) : text[i + j] = sub[j]

(* ---------------------------------------------------------------------- *)
(* Construction                                                           *)
(* ---------------------------------------------------------------------- *)
\* _check_lengths_match with the fitted length formatted into both lines
_check_lengths_match_OneLengthTwice(fitted, real) ==
    IF real = None THEN None
    ELSE LET len_fit == PyLen(fitted).data[1]
             len_real == PyLen(real).data[1]
         IN IF len_fit # len_real
            THEN Raise("ValueError", LengthMessage(len_fit, len_fit))
            ELSE None

\* _check_lengths_match rejecting only fitted values longer than real values
_check_lengths_match_OnlyLonger(fitted, real) ==
    IF real = None THEN None
    ELSE LET len_fit == PyLen(fitted).data[1]
             len_real == PyLen(real).data[1]
         IN IF len_fit > len_real
            THEN Raise("ValueError", LengthMessage(len_fit, len_real))
            ELSE None

\* the exception _check_lengths_match raises, or None when it returns
_check_lengths_match(fitted, real) ==
    IF real = None THEN None
    ELSE LET len_fit == PyLen(fitted).data[1]
             len_real == PyLen(real).data[1]
         IN IF len_fit # len_real
            THEN Raise("ValueError", LengthMessage(len_fit, len_real))
            ELSE None

\* the value _lists_to_nparray leaves in an attribute
_lists_to_nparray(v) == IF v.type = "list" THEN Array("ndarray", v.data) ELSE v

NoArgs == [fitted_values |-> NoAttr, real_values |-> NoAttr, value_positive |-> NoAttr]

ArgSets ==
    [fitted_values : ArrayLikes, real_values : ArrayLikes \cup {None},
     value_positive : Values]

Init ==
    /\ pc = "new"
    /\ kind \in Kinds
    /\ args \in ArgSets
    /\ (kind # "BinaryPrediction" => args.value_positive = Num(1))
    /\ fitted_values = NoAttr
    /\ real_values = NoAttr
    /\ value_positive = NoAttr
    /\ call = <<"none">>
    /\ result = None

\* Prediction.__init__ / BinaryPrediction.__init__
Construct ==
    /\ pc = "new"
    /\ call' = <<"__init__">>
    /\ args' = NoArgs
    /\ kind' = kind
    /\ LET check == _check_lengths_match(args.fitted_values, args.real_values)
       IN IF check.type = "raise"
          THEN /\ fitted_values' = args.fitted_values
               /\ real_values' = args.real_values
               /\ value_positive' = NoAttr
               /\ result' = check
               /\ pc' = "raised"
          ELSE /\ fitted_values' = _lists_to_nparray(args.fitted_values)
               /\ real_values' = _lists_to_nparray(args.real_values)
               /\ value_positive' = IF kind = "BinaryPrediction"
                                    THEN args.value_positive ELSE NoAttr
               /\ result' = None
               /\ pc' = "constructed"

\* an accessor call returns r and leaves the instance alone
Return(c, r) ==
    /\ pc = "constructed"
    /\ pc' = pc
    /\ call' = c
    /\ result' = r
    /\ UNCHANGED <<kind, args, fitted_values, real_values, value_positive>>

(* ---------------------------------------------------------------------- *)
(* Elementwise operations of numpy / pandas                               *)
(* ---------------------------------------------------------------------- *)
\* the container an elementwise operation on a and b returns
ResultType(a, b) ==
    IF a.type = "Series" \/ b.type = "Series" THEN "Series" ELSE "ndarray"

\* a - b, a / b of two arrays, elementwise
ArraySub(a, b) ==
    Array(ResultType(a, b), [i \in 1..Length(a) |-> Sub(a.data[i], b.data[i])])

ArrayDivide(a, b) ==
    Array(ResultType(a, b), [i \in 1..Length(a) |-> Divide(a.data[i], b.data[i])])

\* a ** 2, abs(a), a <= v of an array, elementwise
ArraySquare(a) == Array(a.type, [i \in 1..Length(a) |-> Square(a.data[i])])

ArrayAbs(a) == Array(a.type, [i \in 1..Length(a) |-> Abs(a.data[i])])

ArrayLe(a, v) == Array(a.type, [i \in 1..Length(a) |-> Le(a.data[i], v)])

\* a == b for an array-like or None a and an array b (None equals no element)
ArrayEq(a, b) ==
    IF a = None THEN Array(b.type, [i \in 1..Length(b) |-> FALSE])
    ELSE Array(ResultType(a, b), [i \in 1..Length(a) |-> Eq(a.data[i], b.data[i])])

\* a == v and a != v for an array-like or None a and a scalar v
ScalarEq(a, v) ==
    IF a = None THEN PyBool(FALSE)
    ELSE Array(a.type, [i \in 1..Length(a) |-> Eq(a.data[i], v)])

ScalarNe(a, v) ==
    IF a = None THEN PyBool(TRUE)
    ELSE Array(a.type, [i \in 1..Length(a) |-> Ne(a.data[i], v)])

\* a & b and a | b for a boolean array a and a boolean array or Python bool b
And(a, b) ==
    IF b.type = "bool"
    THEN Array(a.type, [i \in 1..Length(a) |-> a.data[i] /\ b.data[1]])
    ELSE Array(ResultType(a, b), [i \in 1..Length(a) |-> a.data[i] /\ b.data[i]])

Or(a, b) ==
    IF b.type = "bool"
    THEN Array(a.type, [i \in 1..Length(a) |-> a.data[i] \/ b.data[1]])
    ELSE Array(ResultType(a, b), [i \in 1..Length(a) |-> a.data[i] \/ b.data[i]])

\* a.sum() of a boolean array: the number of True elements
RECURSIVE CountTrue(_)
CountTrue(bs) ==
    IF bs = <<>> THEN 0
    ELSE (IF Head(bs) THEN 1 ELSE 0) + CountTrue(Tail(bs))

Sum(a) == CountTrue(a.data)

\* np.mean(a) of a boolean array: nan for the empty array
Mean(a) == Divide(Num(Sum(a)), Num(Length(a)))

\* a[mask]: the elements of a where mask is True, in order
RECURSIVE Select(_, _)
Select(xs, mask) ==
    IF xs = <<>> THEN <<>>
    ELSE (IF Head(mask) THEN <<Head(xs)>> ELSE <<>>) \o Select(Tail(xs), Tail(mask))

(* ---------------------------------------------------------------------- *)
(* Prediction                                                             *)
(* ---------------------------------------------------------------------- *)
\* Prediction.__len__
__len__(obj) == PyLen(obj.fitted_values)

\* Prediction.is_numeric: int and float dtypes are numeric
IsNumber(v) == DOMAIN v = {"n", "d"}

is_numeric(obj) ==
    PyBool(\A i \in 1..Length(obj.fitted_values) : IsNumber(obj.fitted_values.data[i]))

\* Prediction.percentage_correctly_classified
percentage_correctly_classified(obj) ==
    PyFloat(Mean(ArrayEq(obj.real_values, obj.fitted_values)))

\* the class attribute pcc, bound to the same property object
pcc(obj) == percentage_correctly_classified(obj)

\* Prediction.matches
Prediction_matches(obj) == ArrayEq(obj.real_values, obj.fitted_values)

\* pd.DataFrame(data): named columns over a default row index; a None column
\* is repeated on every row
DataFrame(names, cols, n) ==
    [type |-> "DataFrame", columns |-> names, index |-> [i \in 1..n |-> i - 1],
     data |-> [c \in 1..Len(cols) |->
                 IF cols[c] = None THEN [i \in 1..n |-> None] ELSE cols[c].data]]

\* Prediction.as_dataframe
Prediction_as_dataframe(obj) ==
    DataFrame(<<"Fitted Values", "Real Values", "Prediction Matches">>,
              <<obj.fitted_values, obj.real_values, Prediction_matches(obj)>>,
              Length(obj.fitted_values))

(* ---------------------------------------------------------------------- *)
(* NumericPrediction                                                      *)
(* ---------------------------------------------------------------------- *)
\* self.real_values - self.fitted_values: None has no subtraction
Difference(obj) ==
    IF obj.real_values = None THEN Raise("TypeError", <<>>)
    ELSE ArraySub(obj.real_values, obj.fitted_values)

\* residuals with absolute_value tested before squared
residuals_AbsoluteFirst(obj, squared, absolute_value) ==
    LET res == Difference(obj)
    IN IF res.type = "raise" THEN res
       ELSE IF absolute_value THEN ArrayAbs(res)
       ELSE IF squared THEN ArraySquare(res)
       ELSE res

\* NumericPrediction.residuals
residuals(obj, squared, absolute_value) ==
    LET res == Difference(obj)
    IN IF res.type = "raise" THEN res
       ELSE IF squared THEN ArraySquare(res)
       ELSE IF absolute_value THEN ArrayAbs(res)
       ELSE res

\* NumericPrediction.matches
NumericPrediction_matches(obj, tolerance) ==
    LET res == Difference(obj)
    IN IF res.type = "raise" THEN res ELSE ArrayLe(ArrayAbs(res), tolerance)

\* NumericPrediction.as_dataframe
NumericPrediction_as_dataframe(obj) ==
    LET res == residuals(obj, FALSE, FALSE)
    IN IF res.type = "raise" THEN res
       ELSE DataFrame(<<"Fitted Values", "Real Values", "Prediction Matches",
                        "Absolute difference", "Relative difference">>,
                      <<obj.fitted_values, obj.real_values,
                        NumericPrediction_matches(obj, Num(0)),
                        res, ArrayDivide(res, obj.real_values)>>,
                      Length(obj.fitted_values))

RECURSIVE SumInt(_)
SumInt(xs) == IF xs = <<>> THEN 0 ELSE Head(xs) + SumInt(Tail(xs))

\* np.corrcoef(x, y)[0, 1] ** 2 for two arrays: the squared covariance over
\* the product of the variances; nan for fewer than two elements, for a
\* non-finite element and for a zero variance
Corrcoef01Squared(x, y) ==
    LET n == Len(x)
        xs == [i \in 1..n |-> x[i].n]
        ys == [i \in 1..n |-> y[i].n]
        sxy == n * SumInt([i \in 1..n |-> xs[i] * ys[i]]) - SumInt(xs) * SumInt(ys)
        sxx == n * SumInt([i \in 1..n |-> xs[i] * xs[i]]) - SumInt(xs) * SumInt(xs)
        syy == n * SumInt([i \in 1..n |-> ys[i] * ys[i]]) - SumInt(ys) * SumInt(ys)
    IN IF n < 2 \/ \E i \in 1..n : ~IsFinite(x[i]) \/ ~IsFinite(y[i]) THEN NaN
       ELSE IF sxx * syy = 0 THEN NaN
       ELSE Frac(sxy * sxy, sxx * syy)

\* NumericPrediction.r_squared.  np.corrcoef(None, y) raises inside numpy:
\* the object array of None cannot be stacked with y unless y has one
\* element, and cannot be averaged when it has
r_squared(obj) ==
    IF obj.real_values = None
    THEN Raise(IF Length(obj.fitted_values) = 1 THEN "TypeError" ELSE "ValueError", <<>>)
    ELSE PyFloat(Corrcoef01Squared(obj.real_values.data, obj.fitted_values.data))

(* ---------------------------------------------------------------------- *)
(* BinaryPrediction                                                       *)
(* ---------------------------------------------------------------------- *)
\* value_negative taking the last other element instead of the first
value_negative_Last(obj) ==
    LET mask == ScalarNe(obj.real_values, obj.value_positive)
    IN IF obj.real_values = None THEN Raise("TypeError", <<>>)
       ELSE LET other_only == Select(obj.real_values.data, mask.data)
            IN IF other_only = <<>>
               THEN Raise(IF obj.real_values.type = "ndarray"
                          THEN "IndexError" ELSE "KeyError", <<>>)
               ELSE [type |-> "scalar", data |-> <<other_only[Len(other_only)]>>]

\* BinaryPrediction.value_negative
value_negative(obj) ==
    LET mask == ScalarNe(obj.real_values, obj.value_positive)
    IN IF obj.real_values = None THEN Raise("TypeError", <<>>)
       ELSE LET other_only == Select(obj.real_values.data, mask.data)
            IN IF obj.real_values.type = "ndarray"
               THEN (IF other_only = <<>> THEN Raise("IndexError", <<>>)
                     ELSE [type |-> "scalar", data |-> <<other_only[1]>>])
               ELSE (IF other_only = <<>> THEN Raise("KeyError", <<>>)
                     ELSE [type |-> "scalar", data |-> <<other_only[1]>>])

\* x.sum() / y.sum(): a Python bool has no sum()
SumRatio(x, y) ==
    IF x.type = "bool" \/ y.type = "bool" THEN Raise("AttributeError", <<>>)
    ELSE PyFloat(Divide(Num(Sum(x)), Num(Sum(y))))

\* false_positive_rate over the predicted positives instead of the actual negatives
false_positive_rate_OverPredicted(obj) ==
    LET pred_pos == ScalarEq(obj.fitted_values, obj.value_positive)
        real_neg == ScalarNe(obj.real_values, obj.value_positive)
        false_positive == And(pred_pos, real_neg)
    IN SumRatio(false_positive, pred_pos)

\* BinaryPrediction.false_positive_rate
false_positive_rate(obj) ==
    LET pred_pos == ScalarEq(obj.fitted_values, obj.value_positive)
        real_neg == ScalarNe(obj.real_values, obj.value_positive)
        false_positive == And(pred_pos, real_neg)
    IN SumRatio(false_positive, real_neg)

\* BinaryPrediction.false_negative_rate
false_negative_rate(obj) ==
    LET pred_neg == ScalarNe(obj.fitted_values, obj.value_positive)
        real_pos == ScalarEq(obj.real_values, obj.value_positive)
        false_negative == And(pred_neg, real_pos)
    IN SumRatio(false_negative, real_pos)

\* sensitivity with the textbook denominator, the actual positives
sensitivity_Textbook(obj) ==
    LET pred_pos == ScalarEq(obj.fitted_values, obj.value_positive)
        real_pos == ScalarEq(obj.real_values, obj.value_positive)
        caught_positive == And(pred_pos, real_pos)
    IN SumRatio(caught_positive, real_pos)

\* BinaryPrediction.sensitivity
sensitivity(obj) ==
    LET pred_pos == ScalarEq(obj.fitted_values, obj.value_positive)
        real_pos == ScalarEq(obj.real_values, obj.value_positive)
        caught_positive == And(pred_pos, real_pos)
    IN SumRatio(caught_positive, Or(pred_pos, real_pos))

\* BinaryPrediction.specificity
specificity(obj) ==
    LET pred_neg == ScalarNe(obj.fitted_values, obj.value_positive)
        real_neg == ScalarNe(obj.real_values, obj.value_positive)
        caught_negative == And(pred_neg, real_neg)
    IN SumRatio(caught_negative, Or(pred_neg, real_neg))

\* confusion_matrix with rows and columns exchanged
confusion_matrix_Transposed(obj, as_dataframe) ==
    LET pred_pos == ScalarEq(obj.fitted_values, obj.value_positive)
        pred_neg == ScalarNe(obj.fitted_values, obj.value_positive)
        real_pos == ScalarEq(obj.real_values, obj.value_positive)
        real_neg == ScalarNe(obj.real_values, obj.value_positive)
        conf == Array("ndarray",
                      << <<Sum(And(pred_neg, real_neg)), Sum(And(pred_neg, real_pos))>>,
                         <<Sum(And(pred_pos, real_neg)), Sum(And(pred_pos, real_pos))>> >>)
    IN IF ~as_dataframe THEN conf ELSE None

\* BinaryPrediction.confusion_matrix: the source ends after `return conf`, so
\* a call with as_dataframe=True falls off the end of the function
confusion_matrix(obj, as_dataframe) ==
    LET pred_pos == ScalarEq(obj.fitted_values, obj.value_positive)
        pred_neg == ScalarNe(obj.fitted_values, obj.value_positive)
        real_pos == ScalarEq(obj.real_values, obj.value_positive)
        real_neg == ScalarNe(obj.real_values, obj.value_positive)
        conf == Array("ndarray",
                      << <<Sum(And(pred_neg, real_neg)), Sum(And(pred_pos, real_neg))>>,
                         <<Sum(And(pred_neg, real_pos)), Sum(And(pred_pos, real_pos))>> >>)
    IN IF ~as_dataframe THEN conf ELSE None

(* ---------------------------------------------------------------------- *)
(* Accessor calls on the constructed instance                             *)
(* ---------------------------------------------------------------------- *)
CallLen == Return(<<"__len__">>, __len__(self))

CallIsNumeric == Return(<<"is_numeric">>, is_numeric(self))

CallPercentageCorrectlyClassified ==
    Return(<<"percentage_correctly_classified">>, percentage_correctly_classified(self))

CallPcc == Return(<<"pcc">>, pcc(self))

\* matches(): NumericPrediction overrides it and takes a tolerance
CallMatches ==
    \/ /\ pc = "constructed"
       /\ kind # "NumericPrediction"
       /\ Return(<<"matches">>, Prediction_matches(self))
    \/ /\ pc = "constructed"
       /\ kind = "NumericPrediction"
       /\ \E tolerance \in Tolerances :
              Return(<<"matches", tolerance>>, NumericPrediction_matches(self, tolerance))

\* as_dataframe(): NumericPrediction overrides it
CallAsDataframe ==
    \/ /\ pc = "constructed"
       /\ kind # "NumericPrediction"
       /\ Return(<<"as_dataframe">>, Prediction_as_dataframe(self))
    \/ /\ pc = "constructed"
       /\ kind = "NumericPrediction"
       /\ Return(<<"as_dataframe">>, NumericPrediction_as_dataframe(self))

CallRSquared ==
    /\ pc = "constructed"
    /\ kind = "NumericPrediction"
    /\ Return(<<"r_squared">>, r_squared(self))

\* residuals computed in place (real_values -= fitted_values)
CallResiduals_InPlace ==
    /\ pc = "constructed"
    /\ kind = "NumericPrediction"
    /\ \E squared \in BOOLEAN, absolute_value \in BOOLEAN :
           /\ pc' = pc
           /\ call' = <<"residuals", squared, absolute_value>>
           /\ result' = residuals(self, squared, absolute_value)
           /\ real_values' = IF real_values = None THEN real_values ELSE Difference(self)
           /\ UNCHANGED <<kind, args, fitted_values, value_positive>>

CallResiduals ==
    /\ pc = "constructed"
    /\ kind = "NumericPrediction"
    /\ \E squared \in BOOLEAN, absolute_value \in BOOLEAN :
           Return(<<"residuals", squared, absolute_value>>,
                  residuals(self, squared, absolute_value))

CallValueNegative ==
    /\ pc = "constructed"
    /\ kind = "BinaryPrediction"
    /\ Return(<<"value_negative">>, value_negative(self))

CallFalsePositiveRate ==
    /\ pc = "constructed"
    /\ kind = "BinaryPrediction"
    /\ Return(<<"false_positive_rate">>, false_positive_rate(self))

CallFalseNegativeRate ==
    /\ pc = "constructed"
    /\ kind = "BinaryPrediction"
    /\ Return(<<"false_negative_rate">>, false_negative_rate(self))

CallSensitivity ==
    /\ pc = "constructed"
    /\ kind = "BinaryPrediction"
    /\ Return(<<"sensitivity">>, sensitivity(self))

CallSpecificity ==
    /\ pc = "constructed"
    /\ kind = "BinaryPrediction"
    /\ Return(<<"specificity">>, specificity(self))

CallConfusionMatrix ==
    /\ pc = "constructed"
    /\ kind = "BinaryPrediction"
    /\ \E as_dataframe \in BOOLEAN :
           Return(<<"confusion_matrix", as_dataframe>>,
                  confusion_matrix(self, as_dataframe))

Next ==
    \/ Construct
    \/ CallLen
    \/ CallIsNumeric
    \/ CallPercentageCorrectlyClassified
    \/ CallPcc
    \/ CallMatches
    \/ CallAsDataframe
    \/ CallRSquared
    \/ CallResiduals
    \/ CallValueNegative
    \/ CallFalsePositiveRate
    \/ CallFalseNegativeRate
    \/ CallSensitivity
    \/ CallSpecificity
    \/ CallConfusionMatrix

Spec == Init /\ [][Next]_vars

(* ---------------------------------------------------------------------- *)
(* Vocabulary of the properties                                           *)
(* ---------------------------------------------------------------------- *)
Constructed == pc = "constructed"

HasReal == real_values # None

N == Len(fitted_values.data)

Indices == 1..N

PredPosAt(i) == Eq(fitted_values.data[i], value_positive)

RealPosAt(i) == Eq(real_values.data[i], value_positive)

\* the four cells of the two-class partition, as index sets
TrueNegatives == {i \in Indices : ~PredPosAt(i) /\ ~RealPosAt(i)}

FalsePositives == {i \in Indices : PredPosAt(i) /\ ~RealPosAt(i)}

FalseNegatives == {i \in Indices : ~PredPosAt(i) /\ RealPosAt(i)}

TruePositives == {i \in Indices : PredPosAt(i) /\ RealPosAt(i)}

RealNegatives == {i \in Indices : ~RealPosAt(i)}

RealPositives == {i \in Indices : RealPosAt(i)}

Ratio(S, T) == Divide(Num(Cardinality(S)), Num(Cardinality(T)))

IsBinary == Constructed /\ kind = "BinaryPrediction"

(* ---------------------------------------------------------------------- *)
(* C1                                                                     *)
(* ---------------------------------------------------------------------- *)
\* C1: a constructor call with both sequences present and lengths a # b
\* raises a ValueError whose message contains the text of a and of b, and no
\* object is returned; with a = b the call returns the object and raises
\* nothing.
C1_LengthMismatchFails ==
    [][(pc = "new" /\ pc' # "new" /\ args.real_values # None) =>
          LET a == Len(args.fitted_values.data)
              b == Len(args.real_values.data)
          IN /\ a # b => /\ pc' = "raised"
                         /\ result'.type = "raise"
                         /\ result'.data = <<"ValueError">>
                         /\ Contains(result'.msg, IntToStr(a))
                         /\ Contains(result'.msg, IntToStr(b))
             /\ a = b => /\ pc' = "constructed"
                         /\ result'.type # "raise"]_vars

C1_Witness ==
    /\ pc = "raised"
    /\ result.type = "raise"
    /\ Len(fitted_values.data) = 2
    /\ Len(real_values.data) = 1

(* ---------------------------------------------------------------------- *)
(* C2                                                                     *)
(* ---------------------------------------------------------------------- *)
\* C2 as stated: every constructed instance has len(p), len(p.fitted_values)
\* and len(p.real_values) equal, in every later state.
C2_LengthsAgree ==
    Constructed =>
        /\ PyLen(fitted_values) = PyLen(real_values)
        /\ (call = <<"__len__">> => result = PyLen(real_values))

\* C2 amended: every instance constructed with real_values present has
\* len(p), len(p.fitted_values) and len(p.real_values) equal in every later
\* state; with real_values absent len(p) is len(p.fitted_values) and
\* real_values has no length.
C2_LengthsAgreeWhenRealPresent ==
    Constructed =>
        /\ HasReal => /\ PyLen(fitted_values) = PyLen(real_values)
                      /\ (call = <<"__len__">> => result = PyLen(real_values))
        /\ ~HasReal => /\ PyLen(real_values).type = "raise"
                       /\ (call = <<"__len__">> => result = PyInt(N))

C2_Witness ==
    /\ Constructed
    /\ HasReal
    /\ call = <<"__len__">>
    /\ result = PyInt(2)

(* ---------------------------------------------------------------------- *)
(* C3                                                                     *)
(* ---------------------------------------------------------------------- *)
\* C3: confusion_matrix(as_dataframe=True) returns a table with rows and
\* columns labelled Negative, Positive that holds the four counts of
\* confusion_matrix(as_dataframe=False) in the same layout.
C3_ConfusionMatrixDataframe ==
    (IsBinary /\ HasReal /\ call = <<"confusion_matrix", TRUE>>) =>
        /\ result.type = "DataFrame"
        /\ result.columns = <<"Negative", "Positive">>
        /\ result.index = <<"Negative", "Positive">>
        /\ result.data = confusion_matrix(self, FALSE).data

(* ---------------------------------------------------------------------- *)
(* C4                                                                     *)
(* ---------------------------------------------------------------------- *)
\* C4: confusion_matrix() is [[TN, FP], [FN, TP]]: row 0 the actual
\* negatives, row 1 the actual positives, each split by predicted class in
\* (negative, positive) order.
C4_ConfusionMatrixLayout ==
    (IsBinary /\ HasReal /\ call = <<"confusion_matrix", FALSE>>) =>
        /\ result.type = "ndarray"
        /\ result.data =
              << <<Cardinality(TrueNegatives), Cardinality(FalsePositives)>>,
                 <<Cardinality(FalseNegatives), Cardinality(TruePositives)>> >>

C4_Witness ==
    /\ IsBinary
    /\ HasReal
    /\ call = <<"confusion_matrix", FALSE>>
    /\ result.data = << <<0, 1>>, <<1, 0>> >>

(* ---------------------------------------------------------------------- *)
(* C5                                                                     *)
(* ---------------------------------------------------------------------- *)
\* C5: false_positive_rate is FP / count(real_neg) and false_negative_rate
\* is FN / count(real_pos); each is a finite number exactly when its
\* denominator is non-zero and a division-by-zero outcome (nan or inf)
\* otherwise.
C5_ErrorRates ==
    (IsBinary /\ HasReal) =>
        /\ call = <<"false_positive_rate">> =>
              /\ result = PyFloat(Ratio(FalsePositives, RealNegatives))
              /\ IsFinite(result.data[1]) <=> RealNegatives # {}
        /\ call = <<"false_negative_rate">> =>
              /\ result = PyFloat(Ratio(FalseNegatives, RealPositives))
              /\ IsFinite(result.data[1]) <=> RealPositives # {}

C5_Witness ==
    /\ IsBinary
    /\ HasReal
    /\ N = 2
    /\ call = <<"false_positive_rate">>
    /\ RealNegatives = {}
    /\ result = PyFloat(NaN)

(* ---------------------------------------------------------------------- *)
(* C6                                                                     *)
(* ---------------------------------------------------------------------- *)
SensitivityAsCoded ==
    (IsBinary /\ HasReal) =>
        /\ call = <<"sensitivity">> =>
              result = PyFloat(Ratio(TruePositives,
                                     {i \in Indices : PredPosAt(i) \/ RealPosAt(i)}))
        /\ call = <<"specificity">> =>
              result = PyFloat(Ratio(TrueNegatives,
                                     {i \in Indices : ~PredPosAt(i) \/ ~RealPosAt(i)}))

\* C6 as stated: sensitivity is TP / count(pred_pos | real_pos), specificity
\* is TN / count(pred_neg | real_neg), and sensitivity differs from
\* TP / count(real_pos) whenever some actual negative is predicted positive.
C6_UnionDenominators ==
    /\ SensitivityAsCoded
    /\ (IsBinary /\ HasReal /\ call = <<"sensitivity">> /\ FalsePositives # {}) =>
           result.data[1] # Ratio(TruePositives, RealPositives)

\* C6 amended: the same two formulas, and sensitivity differs from
\* TP / count(real_pos) whenever some actual negative is predicted positive,
\* except when no actual positive is predicted positive although one exists
\* (both values are then 0).
C6_UnionDenominatorsAmended ==
    /\ SensitivityAsCoded
    /\ (IsBinary /\ HasReal /\ call = <<"sensitivity">> /\ FalsePositives # {}
          /\ ~(TruePositives = {} /\ RealPositives # {})) =>
           result.data[1] # Ratio(TruePositives, RealPositives)

C6_Witness ==
    /\ IsBinary
    /\ HasReal
    /\ call = <<"sensitivity">>
    /\ FalsePositives # {}
    /\ TruePositives # {}
    /\ result = PyFloat(Frac(1, 2))

(* ---------------------------------------------------------------------- *)
(* C7                                                                     *)
(* ---------------------------------------------------------------------- *)
\* C7: residuals(squared, absolute_value) has length N and at every index
\* holds (real - fitted)^2 when squared, else |real - fitted| when
\* absolute_value, else real - fitted.
C7_ResidualForms ==
    (Constructed /\ kind = "NumericPrediction" /\ HasReal /\ call[1] = "residuals") =>
        /\ Len(result.data) = N
        /\ \A i \in Indices :
              LET signed == Sub(real_values.data[i], fitted_values.data[i])
              IN result.data[i] =
                    IF call[2] THEN Square(signed)
                    ELSE IF call[3] THEN Abs(signed)
                    ELSE signed

C7_Witness ==
    /\ Constructed
    /\ kind = "NumericPrediction"
    /\ call = <<"residuals", TRUE, TRUE>>
    /\ HasReal
    /\ N = 2
    /\ result.data[1] = Num(4)
    /\ result.data[2] = Num(0)

(* ---------------------------------------------------------------------- *)
(* C8                                                                     *)
(* ---------------------------------------------------------------------- *)
\* matches() with its default arguments, for the kind of the instance
DefaultMatches ==
    IF kind = "NumericPrediction" THEN NumericPrediction_matches(self, Num(0))
    ELSE Prediction_matches(self)

\* C8: with N >= 1, percentage_correctly_classified is the number of True
\* elements of matches() divided by N, lies in [0, 1], and pcc returns the
\* same value.
C8_PccIsMatchRate ==
    (Constructed /\ HasReal /\ N >= 1
       /\ call \in {<<"percentage_correctly_classified">>, <<"pcc">>}) =>
        /\ result = PyFloat(Frac(Sum(DefaultMatches), N))
        /\ Le(Num(0), result.data[1]) /\ Le(result.data[1], Num(1))
        /\ pcc(self) = percentage_correctly_classified(self)

(* ---------------------------------------------------------------------- *)
(* C9                                                                     *)
(* ---------------------------------------------------------------------- *)
Others == {i \in 1..Len(real_values.data) : Ne(real_values.data[i], value_positive)}

\* C9: value_negative is the element of real_values at the smallest index
\* whose element differs from value_positive; when there is no such index
\* the access raises and returns nothing.
C9_ValueNegative ==
    (IsBinary /\ call = <<"value_negative">>) =>
        IF Others # {}
        THEN \E i \in Others :
                 /\ \A j \in Others : i <= j
                 /\ result.type # "raise"
                 /\ result.data = <<real_values.data[i]>>
        ELSE result.type = "raise"

C9_Witness ==
    /\ IsBinary
    /\ call = <<"value_negative">>
    /\ Len(real_values.data) = 2
    /\ Others = {}
    /\ result.type = "raise"

(* ---------------------------------------------------------------------- *)
(* C10                                                                    *)
(* ---------------------------------------------------------------------- *)
\* C10: once the instance is constructed no step changes fitted_values,
\* real_values or value_positive, and an accessor called again with the same
\* arguments returns what it returned before.
C10_AccessorsArePure ==
    [][Constructed =>
          /\ fitted_values' = fitted_values
          /\ real_values' = real_values
          /\ value_positive' = value_positive
          /\ (call' = call => result' = result)]_vars

C10_Witness ==
    /\ Constructed
    /\ kind = "NumericPrediction"
    /\ HasReal
    /\ N = 2
    /\ call = <<"residuals", FALSE, FALSE>>
    /\ result.data # real_values.data

====
